---- MODULE Spec2Model ----
(***************************************************************************)
(* remember-mcp: the tier orchestrator (RememberSystem) and its archival   *)
(* scheduler (ArchivalScheduler).                                          *)
(*                                                                         *)
(* The active store is the `memories` table of the OpenMemory database,    *)
(* the archive tier is the directory of memvid segments plus the in-memory *)
(* archive_index.  Every coroutine is modelled between its await points:   *)
(* one action is the code that runs without yielding to the event loop,    *)
(* together with the database call (asyncio.to_thread) it was waiting for. *)
(*                                                                         *)
(* Units: the clock `now` is time.time() in whole seconds, created_at and  *)
(* last_run are milliseconds, salience is in hundredths (0.2 is 20).       *)
(***************************************************************************)
EXTENDS Integers, Sequences, FiniteSets, TLC

\* ------------------------------------------------------------------ bounds
\* Number of operations the environment performs: records added or recalled,
\* seconds the clock advances, calls of archive_old_memories and of query.
MaxOps == 4
\* The scheduler's interval_seconds (a constructor argument).
Interval == 1
\* FileIndexer.search: the largest top_k, and the most chunks the retriever of
\* one indexed file can return.
MaxTopK == 12
\* _time_until_next_run: the clock runs up to this many seconds.
MaxSeconds == 2
\* _load_archive_index: the latest timestamp in the name of a segment file.
MaxStamp == 2

\* ------------------------------------------------------ configuration
\* RememberSystem(archive_threshold_days=0, archive_min_salience=0.5)
archive_threshold_days == 0
archive_min_salience == 50
MsPerDay == 86400000

\* None as a user_id.
None == "None"
\* An Optional number: Nil is None, Some(x) the number x.
Nil == <<>>
Some(x) == <<x>>
\* The user ids there are; a run uses the ones `owners` holds.
Users == {"u1", "u2"}
\* Salience the active store gives a record (external decay model).
Saliences == {10, 90}
\* Values a caller passes as age_days / min_salience.
AgeArgs == {Nil, Some(1)}
SalArgs == {Nil, Some(100)}

\* Coroutines that can be inside archive_old_memories: the scheduler's loop
\* task and the handlers of two tool calls.
Loop == "loop"
Callers == {"c1", "c2"}
Procs == {Loop} \cup Callers

VARIABLES
    now,            \* int(time.time())
    memories,       \* active store: id -> row of the memories table
    next_id,        \* next fresh record id
    archive_index,  \* RememberSystem.archive_index: owner -> timestamp -> info
    files,          \* archive_dir: stem -> segment written by build_video
    ctx,            \* per coroutine: position and locals in archive_old_memories
    running,        \* ArchivalScheduler.running
    enabled,        \* ArchivalScheduler.enabled
    last_run,       \* ArchivalScheduler.last_run
    total_archived, \* ArchivalScheduler.total_archived
    wake_at,        \* when the loop's asyncio.sleep ends
    ret,            \* what this step returned (archive_old_memories, a recall) or printed
    ops,            \* operations performed so far
    q,              \* the coroutine of a query: position, arguments and locals
    deleted,        \* history: ids removed by a migration's DELETE
    owners,         \* the user ids the callers of this run use
    tasks,          \* loop tasks created by start and not yet finished
    fi,             \* FileIndexer.search: its arguments, the index, its result
    st,             \* _time_until_next_run: the fields and clock it reads, its result
    rb,             \* _load_archive_index: the files of archive_dir, its result
    gs,             \* the coroutine of a get_stats: position, argument and locals
    ix              \* FileIndexer.index_file: the files on disk, metadata, its result

\* RememberSystem with its scheduler.
svars == <<now, memories, next_id, archive_index, files, ctx, running, enabled,
           last_run, total_archived, wake_at, ret, ops, q, deleted, owners,
           tasks>>
\* FileIndexer.
fvars == <<fi, ix>>
\* Calls with a frame of their own: _time_until_next_run, _load_archive_index,
\* get_stats.
tvars == <<st, rb, gs>>
vars == <<svars, fvars, tvars>>

\* A user_id argument: one of the owners, or None.
UserArgs == owners \cup {None}

\* ----------------------------------------------------------------- helpers
Range(s) == {s[i] : i \in DOMAIN s}

\* `x or default`: Python's `or` takes the default for None and for 0.
OrDefault(x, default) == IF x = Nil \/ x = Some(0) THEN default ELSE x[1]

\* user_{user_id or 'default'}_{timestamp}: the stem of a segment's two files.
Stem(user_id, timestamp) ==
    [owner |-> IF user_id = None THEN "default" ELSE user_id, ts |-> timestamp]

\* ArchiveStats; compression_ratio is in hundredths (1.0 is 100).
ArchiveStats(archived, remaining, size, ratio) ==
    [kind |-> "stats", archived_count |-> archived, active_remaining |-> remaining,
     archive_size_bytes |-> size, compression_ratio |-> ratio]

\* Nothing returned in this step.
NoRet == [kind |-> "none"]

\* len(mem['content']): the text numbered n is n characters long.
ContentLen(content) == content

RECURSIVE OriginalSize(_)
\* sum(len(mem['content']) for mem in eligible_memories)
OriginalSize(rows) ==
    IF rows = <<>> THEN 0 ELSE ContentLen(Head(rows).content) + OriginalSize(Tail(rows))

\* video_path.stat().st_size: what the encoder wrote, in bytes.
Sizes == {0, 3}

\* original_size / archive_size if archive_size > 0 else 1.0
CompressionRatio(original_size, archive_size) ==
    IF archive_size > 0 THEN (original_size * 100) \div archive_size ELSE 100

\* SELECT COUNT(*) FROM memories [WHERE user_id = ?]
CountActive(mem, user_id) ==
    Cardinality({i \in DOMAIN mem : user_id = None \/ mem[i].user_id = user_id})

\* Mutant of IsEligible: the WHERE clause without the user_id condition.
IsEligibleAnyOwner(row, user_id, age_threshold_ms, min_salience) ==
    /\ row.created_at <= age_threshold_ms
    /\ row.salience < min_salience

\* WHERE [user_id = ? AND] created_at <= ? AND salience < ?
IsEligible(row, user_id, age_threshold_ms, min_salience) ==
    /\ user_id # None => row.user_id = user_id
    /\ row.created_at <= age_threshold_ms
    /\ row.salience < min_salience

\* ORDER BY salience ASC, created_at ASC (rowid order among equals).
RowLess(a, b) ==
    \/ a.salience < b.salience
    \/ a.salience = b.salience /\ a.created_at < b.created_at
    \/ a.salience = b.salience /\ a.created_at = b.created_at /\ a.id < b.id

RECURSIVE SortRows(_)
\* The rows of a result set in the order of RowLess.
SortRows(S) ==
    IF S = {} THEN <<>>
    ELSE LET m == CHOOSE x \in S : \A y \in S \ {x} : RowLess(x, y)
         IN <<m>> \o SortRows(S \ {m})

\* eligible_memories: the rows selected for archival, in query order.
SelectEligible(mem, user_id, age_days, min_salience, clock) ==
    LET age == OrDefault(age_days, archive_threshold_days)
        sal == OrDefault(min_salience, archive_min_salience)
        age_threshold_ms == clock * 1000 - age * MsPerDay
        rows == {[id |-> i, user_id |-> mem[i].user_id, content |-> mem[i].content,
                  salience |-> mem[i].salience, created_at |-> mem[i].created_at] :
                    i \in {j \in DOMAIN mem :
                             IsEligible(mem[j], user_id, age_threshold_ms, sal)}}
    IN SortRows(rows)

Ids(rows) == {rows[i].id : i \in DOMAIN rows}

\* Mutant of DeleteByIds: the DELETE removes nothing (a copy, not a move).
DeleteNothing(mem, ids) == mem

\* DELETE FROM memories WHERE id IN (memory_ids)
DeleteByIds(mem, ids) == [i \in DOMAIN mem \ ids |-> mem[i]]

\* The segment build_video writes: the chunks in order.  `src` and `user`
\* record which row each chunk came from and whose it was; the codec stores
\* the text alone.
Segment(rows) ==
    [chunks |-> [i \in DOMAIN rows |-> rows[i].content],
     src |-> [i \in DOMAIN rows |-> rows[i].id],
     user |-> [i \in DOMAIN rows |-> rows[i].user_id]]

\* archive_index[user_id][str(timestamp)] = {...}, only `if user_id`.
Register(index, user_id, timestamp) ==
    IF user_id = None THEN index
    ELSE LET old == IF user_id \in DOMAIN index THEN index[user_id] ELSE <<>>
             info == [file |-> Stem(user_id, timestamp),
                      index |-> Stem(user_id, timestamp),
                      created_at |-> timestamp]
         IN (user_id :> ((timestamp :> info) @@ old)) @@ index

\* A coroutine outside archive_old_memories holds none of its locals.
Frame(pc) == [pc |-> pc, via |-> "tool", user_id |-> None, eligible |-> <<>>]
InFlightPcs == {"encode", "empty", "failed", "delete", "commit", "count"}
InFlight(p) == ctx[p].pc \in InFlightPcs

\* ------------------------------------------------------------ hybrid query
\* The similarity of a text to the query text, in hundredths: the active store
\* and the codec rank by a similarity of their own; here a text equal to the
\* query scores 1.0, a later text 0.8 and an earlier text 0.5.
Similarity(query, content) ==
    IF content = query THEN 100 ELSE IF content > query THEN 80 ELSE 50

\* The sector the active store files a text under (its own classification).
PrimarySector(content) == IF content % 2 = 0 THEN "episodic" ELSE "semantic"

RECURSIVE InsertByScoreFirst(_, _)
\* Mutant of InsertByScore: h goes before the hits of the same score.
InsertByScoreFirst(s, h) ==
    IF s = <<>> THEN <<h>>
    ELSE IF Head(s).score > h.score THEN <<Head(s)>> \o InsertByScoreFirst(Tail(s), h)
    ELSE <<h>> \o s

\* Insert hit h into the sequence s, sorted by descending score, after every
\* hit of the same score (list.sort is stable).
RECURSIVE InsertByScore(_, _)
InsertByScore(s, h) ==
    IF s = <<>> THEN <<h>>
    ELSE IF Head(s).score >= h.score THEN <<Head(s)>> \o InsertByScore(Tail(s), h)
    ELSE <<h>> \o s

\* results.sort(key=lambda x: x.score, reverse=True)
RECURSIVE SortByScore(_)
SortByScore(s) ==
    IF s = <<>> THEN <<>>
    ELSE InsertByScore(SortByScore(SubSeq(s, 1, Len(s) - 1)), s[Len(s)])

\* s[:k]
Take(s, k) == SubSeq(s, 1, IF k < Len(s) THEN k ELSE Len(s))

\* ORDER of a store's answer: best match first, rowid among equals.
RECURSIVE RankIds(_, _, _)
RankIds(mem, ids, query) ==
    IF ids = {} THEN <<>>
    ELSE LET best == CHOOSE i \in ids : \A j \in ids \ {i} :
                       \/ Similarity(query, mem[i].content) > Similarity(query, mem[j].content)
                       \/ /\ Similarity(query, mem[i].content) = Similarity(query, mem[j].content)
                          /\ i < j
         IN <<best>> \o RankIds(mem, ids \ {best}, query)

\* self.active.query(...): at most k rows of the user, best first, converted
\* to HybridMemoryResult with location ACTIVE (lines 154-173).
ActiveResults(mem, query, k, user_id) ==
    LET ids == {i \in DOMAIN mem : user_id = None \/ mem[i].user_id = user_id}
        ranked == Take(RankIds(mem, ids, query), k)
    IN [n \in DOMAIN ranked |->
          [id |-> <<"active", ranked[n]>>, content |-> mem[ranked[n]].content,
           score |-> Similarity(query, mem[ranked[n]].content),
           location |-> "active", primary_sector |-> PrimarySector(mem[ranked[n]].content),
           salience |-> mem[ranked[n]].salience,
           archived_at |-> Nil, archive_file |-> <<>>, src |-> ranked[n]]]

\* retriever.search(query, top_k=k) on one segment: its chunks, best first.
RECURSIVE RankChunks(_, _, _)
RankChunks(seg, idx, query) ==
    IF idx = {} THEN <<>>
    ELSE LET best == CHOOSE i \in idx : \A j \in idx \ {i} :
                       \/ Similarity(query, seg.chunks[i]) > Similarity(query, seg.chunks[j])
                       \/ /\ Similarity(query, seg.chunks[i]) = Similarity(query, seg.chunks[j])
                          /\ i < j
         IN <<best>> \o RankChunks(seg, idx \ {best}, query)

\* Mutant of SegmentResults: the score of the codec is passed on as it is.
SegmentResultsNoPenalty(fs, info, timestamp, query, k) ==
    LET seg == fs[info.file]
        hits == Take(RankChunks(seg, DOMAIN seg.chunks, query), k)
    IN [n \in DOMAIN hits |->
          [id |-> <<"archive", timestamp, seg.chunks[hits[n]]>>,
           content |-> seg.chunks[hits[n]],
           score |-> Similarity(query, seg.chunks[hits[n]]),
           location |-> "archive", primary_sector |-> "semantic", salience |-> 0,
           archived_at |-> Some(info.created_at), archive_file |-> info.file,
           src |-> seg.src[hits[n]]]]

\* The hits of one archive of the user as HybridMemoryResult (lines 204-226):
\* score * 0.8, location ARCHIVE, salience 0.
SegmentResults(fs, info, timestamp, query, k) ==
    LET seg == fs[info.file]
        hits == Take(RankChunks(seg, DOMAIN seg.chunks, query), k)
    IN [n \in DOMAIN hits |->
          [id |-> <<"archive", timestamp, seg.chunks[hits[n]]>>,
           content |-> seg.chunks[hits[n]],
           score |-> (Similarity(query, seg.chunks[hits[n]]) * 8) \div 10,
           location |-> "archive", primary_sector |-> "semantic", salience |-> 0,
           archived_at |-> Some(info.created_at), archive_file |-> info.file,
           src |-> seg.src[hits[n]]]]

\* _query_archives: every archive of the user, in the order of the dict.
RECURSIVE ArchiveResults(_, _, _, _, _)
ArchiveResults(fs, user_archives, stamps, query, k) ==
    IF stamps = {} THEN <<>>
    ELSE LET t == CHOOSE x \in stamps : \A y \in stamps : x <= y
         IN SegmentResults(fs, user_archives[t], t, query, k)
            \o ArchiveResults(fs, user_archives, stamps \ {t}, query, k)

\* Mutant of ArchiveHits: the archives of every owner are searched, whoever
\* asks.
ArchiveHitsAnyOwner(index, fs, query, k, user_id, include_archive) ==
    IF include_archive /\ DOMAIN index # {}
    THEN LET u == CHOOSE x \in DOMAIN index : TRUE
         IN ArchiveResults(fs, index[u], DOMAIN index[u], query, k)
    ELSE <<>>

\* archive_results: empty unless include_archive and user_id in archive_index.
ArchiveHits(index, fs, query, k, user_id, include_archive) ==
    IF include_archive /\ user_id \in DOMAIN index
    THEN ArchiveResults(fs, index[user_id], DOMAIN index[user_id], query, k)
    ELSE <<>>

\* The segments a MemvidRetriever is opened on by a query: those of
\* archive_index[user_id], and none unless the branch of line 176 is taken.
SearchedSegments(index, user_id, include_archive) ==
    IF include_archive /\ user_id \in DOMAIN index
    THEN {index[user_id][t].file : t \in DOMAIN index[user_id]}
    ELSE {}

\* Mutant of HybridResults: the list is cut to k before it is sorted.
HybridResultsCutFirst(active_results, index, fs, query, k, user_id, include_archive) ==
    SortByScore(Take(active_results
                     \o ArchiveHits(index, fs, query, k, user_id, include_archive), k))

\* The end of RememberSystem.query (lines 175-188).
HybridResults(active_results, index, fs, query, k, user_id, include_archive) ==
    Take(SortByScore(active_results
                     \o ArchiveHits(index, fs, query, k, user_id, include_archive)), k)

NoQuery == [pc |-> "idle", query |-> 0, k |-> 0, user_id |-> None,
            include_archive |-> FALSE, results |-> <<>>]

\* No search of the file index is running.
NoSearch == [pc |-> "idle"]

\* No call of _time_until_next_run on its own.
NoStatus == [pc |-> "idle"]

\* No call of _load_archive_index on its own.
NoRebuild == [pc |-> "idle"]

\* No get_stats in progress.
NoStats == [pc |-> "idle"]

\* No FileIndexer in use.
NoIndexer == [pc |-> "none"]

\* ------------------------------------------------------------------- Init
\* RememberSystem and ArchivalScheduler as constructed, on an empty database
\* and an empty archive_dir.
Boot ==
    /\ now = 0
    /\ memories = <<>>
    /\ next_id = 1
    /\ archive_index = <<>>
    /\ files = <<>>
    /\ ctx = [p \in Procs |-> Frame(IF p = Loop THEN "none" ELSE "idle")]
    /\ running = FALSE
    /\ last_run = Nil
    /\ total_archived = 0
    /\ wake_at = 0
    /\ ret = NoRet
    /\ ops = 0
    /\ q = NoQuery
    /\ deleted = {}
    /\ tasks = 0

\* The scheduler as the server constructs it: enabled=False.
Init ==
    /\ Boot
    /\ enabled = FALSE
    /\ owners = {"u1"}
    /\ owners \subseteq Users
    /\ fi = NoSearch
    /\ st = NoStatus
    /\ rb = NoRebuild
    /\ gs = NoStats
    /\ ix = NoIndexer

\* The scheduler constructed with either value of `enabled` (the server passes
\* False, the default is True).
InitSched ==
    /\ Boot
    /\ enabled \in BOOLEAN
    /\ owners = {"u1"}
    /\ fi = NoSearch
    /\ st = NoStatus
    /\ rb = NoRebuild
    /\ gs = NoStats
    /\ ix = NoIndexer

\* ---------------------------------------------------------------- actions
\* time.time() advances by a second.
Tick ==
    /\ ops < MaxOps
    /\ ops' = ops + 1
    /\ now' = now + 1
    /\ ret' = NoRet
    /\ UNCHANGED <<memories, next_id, archive_index, files, ctx, running, enabled,
                   last_run, total_archived, wake_at, deleted, q>>
    /\ UNCHANGED <<owners, tasks, fvars, tvars>>

\* self.active.add_memory(...): a new row with a fresh id; `result` is what the
\* calling operation returns.
Insert(content, user_id, salience, result) ==
    /\ ops < MaxOps
    /\ ops' = ops + 1
    /\ memories' = (next_id :> [user_id |-> user_id, content |-> content,
                                salience |-> salience, created_at |-> now * 1000])
                   @@ memories
    /\ next_id' = next_id + 1
    /\ ret' = result
    /\ UNCHANGED <<now, archive_index, files, ctx, running, enabled, last_run,
                   total_archived, wake_at, deleted, q>>
    /\ UNCHANGED <<owners, tasks, fvars, tvars>>

\* RememberSystem.add_memory: every call stores a text of its own (its result
\* is not kept).
add_memory ==
    \E user_id \in UserArgs, salience \in Saliences :
        Insert(next_id, user_id, salience, NoRet)

\* The texts held by the segments in archive_dir.
ArchivedContents == UNION {Range(files[f].chunks) : f \in DOMAIN files}

\* Mutant of Recall: the text is inserted only if the named segment holds it.
RecallIfPresent(archive_file, content, user_id) ==
    LET result == [kind |-> "memory", id |-> next_id, location |-> "active",
                   content |-> content, user_id |-> user_id,
                   recalled_from |-> archive_file]
    IN IF archive_file \in DOMAIN files /\ content \in Range(files[archive_file].chunks)
       THEN \E salience \in Saliences : Insert(content, user_id, salience, result)
       ELSE /\ ops < MaxOps
            /\ ops' = ops + 1
            /\ ret' = result
            /\ UNCHANGED <<now, memories, next_id, archive_index, files, ctx, running,
                           enabled, last_run, total_archived, wake_at, deleted, q,
                           owners, tasks, fvars, tvars>>

\* Mutant of Recall: the recalled segment is taken out of the registry.
RecallMove(archive_file, content, user_id) ==
    /\ ops < MaxOps
    /\ ops' = ops + 1
    /\ \E salience \in Saliences :
          memories' = (next_id :> [user_id |-> user_id, content |-> content,
                                   salience |-> salience, created_at |-> now * 1000])
                      @@ memories
    /\ next_id' = next_id + 1
    /\ archive_index' =
          [u \in DOMAIN archive_index |->
              [t \in {x \in DOMAIN archive_index[u] :
                         archive_index[u][x].file # archive_file} |->
                  archive_index[u][t]]]
    /\ ret' = [kind |-> "memory", id |-> next_id, location |-> "active",
               content |-> content, user_id |-> user_id,
               recalled_from |-> archive_file]
    /\ UNCHANGED <<now, files, ctx, running, enabled, last_run, total_archived,
                   wake_at, deleted, q, owners, tasks,
                   fvars, tvars>>

\* Mutant of Recall: a segment the registry does not list is refused.
RecallVerified(archive_file, content, user_id) ==
    IF \E u \in DOMAIN archive_index : \E t \in DOMAIN archive_index[u] :
           archive_index[u][t].file = archive_file
    THEN \E salience \in Saliences :
             Insert(content, user_id, salience,
                    [kind |-> "memory", id |-> next_id, location |-> "active",
                     content |-> content, user_id |-> user_id,
                     recalled_from |-> archive_file])
    ELSE /\ ops < MaxOps
         /\ ops' = ops + 1
         /\ ret' = [kind |-> "error", error |-> "NotFound"]
         /\ UNCHANGED <<now, memories, next_id, archive_index, files, ctx, running,
                        enabled, last_run, total_archived, wake_at, deleted, q,
                        owners, tasks, fvars, tvars>>

\* RememberSystem.recall_from_archive: add_memory with the given content; the
\* archive_file goes to the metadata only and nothing is looked up.  The result
\* is add_memory's, shown with the arguments of the call.
Recall(archive_file, content, user_id) ==
    \E salience \in Saliences :
        Insert(content, user_id, salience,
               [kind |-> "memory", id |-> next_id, location |-> "active",
                content |-> content, user_id |-> user_id,
                recalled_from |-> archive_file])

\* A recall of a text some segment holds, naming that segment.
recall_from_archive ==
    \E archive_file \in DOMAIN files, user_id \in UserArgs :
        \E content \in Range(files[archive_file].chunks) :
            Recall(archive_file, content, user_id)

\* A segment name no migration of the model writes.
NoFile == [owner |-> "default", ts |-> -1]

\* The recall_memory tool: any segment name, with a text some segment holds or
\* with text 0, which no add_memory call stores.
recall_memory ==
    \E archive_file \in DOMAIN files \cup {NoFile}, content \in {0} \cup ArchivedContents,
       user_id \in UserArgs :
        Recall(archive_file, content, user_id)

\* archive_old_memories up to the rows fetched (lines 251-282).
Select(p, via, user_id, age_days, min_salience) ==
    LET rows == SelectEligible(memories, user_id, age_days, min_salience, now)
    IN /\ ops < MaxOps
       /\ ops' = ops + 1
       /\ ctx' = [ctx EXCEPT ![p] =
                    [pc |-> IF rows = <<>> THEN "empty" ELSE "encode", via |-> via,
                     user_id |-> user_id, eligible |-> rows]]

\* The archive_memories tool: archive_old_memories(age_days, min_salience, user_id).
archive_memories(p) ==
    /\ ctx[p].pc = "idle"
    /\ \E user_id \in UserArgs, age_days \in AgeArgs, min_salience \in SalArgs :
           Select(p, "tool", user_id, age_days, min_salience)
    /\ ret' = NoRet
    /\ UNCHANGED <<now, memories, next_id, archive_index, files, running, enabled,
                   last_run, total_archived, wake_at, deleted, q>>
    /\ UNCHANGED <<owners, tasks, fvars, tvars>>

\* Values a caller can pass as age_days / min_salience at all: also 0, a
\* negative number, and a salience above 1.0.
AnyAgeArgs == AgeArgs \cup {Some(0), Some(-1)}
AnySalArgs == SalArgs \cup {Some(0), Some(-10), Some(200)}

\* archive_old_memories(age_days, min_salience, user_id) called with any
\* values; the frame keeps the two arguments as the caller gave them.
archive_old_memories(p) ==
    /\ ctx[p].pc = "idle"
    /\ ops < MaxOps
    /\ ops' = ops + 1
    /\ \E user_id \in UserArgs, age_days \in AnyAgeArgs, min_salience \in AnySalArgs :
          LET rows == SelectEligible(memories, user_id, age_days, min_salience, now)
          IN ctx' = [ctx EXCEPT ![p] =
                       [pc |-> IF rows = <<>> THEN "empty" ELSE "encode", via |-> "tool",
                        user_id |-> user_id, eligible |-> rows,
                        age_days |-> age_days, min_salience |-> min_salience]]
    /\ ret' = NoRet
    /\ UNCHANGED <<now, memories, next_id, archive_index, files, running, enabled,
                   last_run, total_archived, wake_at, deleted, q>>
    /\ UNCHANGED <<owners, tasks, fvars, tvars>>

\* _run_archival's call: the system thresholds and no user_id.
RunArchival(p) ==
    Select(p, "sched", None, Some(archive_threshold_days), Some(archive_min_salience))

\* What run_now prints when it is called: "Manual archival triggered".
Triggered == [kind |-> "triggered"]

\* ArchivalScheduler.run_now -> _run_archival: returns at once unless enabled.
run_now(p) ==
    /\ ctx[p].pc = "idle"
    /\ IF enabled THEN RunArchival(p) ELSE UNCHANGED <<ctx, ops>>
    /\ ret' = Triggered
    /\ UNCHANGED <<now, memories, next_id, archive_index, files, running, enabled,
                   last_run, total_archived, wake_at, deleted, q>>
    /\ UNCHANGED <<owners, tasks, fvars, tvars>>

\* Mutant of Return: a run that archived nothing is not recorded.
ReturnUnrecordedWhenEmpty(p, stats) ==
    /\ ctx' = [ctx EXCEPT ![p] = Frame(IF p = Loop THEN "sleep" ELSE "idle")]
    /\ ret' = stats
    /\ IF ctx[p].via = "sched" /\ stats.archived_count > 0
       THEN /\ last_run' = Some(now * 1000)
            /\ total_archived' = total_archived + stats.archived_count
       ELSE UNCHANGED <<last_run, total_archived>>
    /\ wake_at' = IF p = Loop THEN now + Interval ELSE wake_at

\* What follows the return of archive_old_memories: a tool call is over; in
\* _run_archival the run history is updated; the loop then sleeps.
Return(p, stats) ==
    /\ ctx' = [ctx EXCEPT ![p] = Frame(IF p = Loop THEN "sleep" ELSE "idle")]
    /\ ret' = stats
    /\ IF ctx[p].via = "sched"
       THEN /\ last_run' = Some(now * 1000)
            /\ total_archived' = total_archived + stats.archived_count
       ELSE UNCHANGED <<last_run, total_archived>>
    /\ wake_at' = IF p = Loop THEN now + Interval ELSE wake_at

\* Mutant of ReturnEmpty: the zero result is returned without counting.
ReturnEmptyUncounted(p) ==
    /\ ctx[p].pc = "empty"
    /\ Return(p, ArchiveStats(0, 0, 0, 100))
    /\ UNCHANGED <<now, memories, next_id, archive_index, files, running, enabled,
                   ops, deleted, q>>
    /\ UNCHANGED <<owners, tasks, fvars, tvars>>

\* Nothing eligible: count and return a zero result (lines 284-305).
ReturnEmpty(p) ==
    /\ ctx[p].pc = "empty"
    /\ Return(p, ArchiveStats(0, CountActive(memories, ctx[p].user_id), 0, 100))
    /\ UNCHANGED <<now, memories, next_id, archive_index, files, running, enabled,
                   ops, deleted, q>>
    /\ UNCHANGED <<owners, tasks, fvars, tvars>>

\* MemvidEncoder builds the segment and the index is updated (lines 307-353).
EncodeAndRegister(p) ==
    /\ ctx[p].pc = "encode"
    /\ files' = (Stem(ctx[p].user_id, now) :> Segment(ctx[p].eligible)) @@ files
    /\ archive_index' = Register(archive_index, ctx[p].user_id, now)
    /\ ctx' = [ctx EXCEPT ![p].pc = "delete"]
    /\ ret' = NoRet
    /\ UNCHANGED <<now, memories, next_id, running, enabled, last_run,
                   total_archived, wake_at, ops, deleted, q>>
    /\ UNCHANGED <<owners, tasks, fvars, tvars>>

\* Mutant of EncodeFail: the index is updated although the encoder raised.
EncodeFailRegistered(p) ==
    /\ ctx[p].pc = "encode"
    /\ archive_index' = Register(archive_index, ctx[p].user_id, now)
    /\ ctx' = [ctx EXCEPT ![p].pc = "failed"]
    /\ ret' = NoRet
    /\ UNCHANGED <<now, memories, next_id, files, running, enabled,
                   last_run, total_archived, wake_at, ops, q, deleted>>
    /\ UNCHANGED <<owners, tasks, fvars, tvars>>

\* The encoder raises: printed, then the early return is taken (lines 318-322).
EncodeFail(p) ==
    /\ ctx[p].pc = "encode"
    /\ ctx' = [ctx EXCEPT ![p].pc = "failed"]
    /\ ret' = NoRet
    /\ UNCHANGED <<now, memories, next_id, archive_index, files, running, enabled,
                   last_run, total_archived, wake_at, ops, deleted, q>>
    /\ UNCHANGED <<owners, tasks, fvars, tvars>>

\* Mutant of ReturnFailed: the failure ends the coroutine that ran the
\* migration, the loop task included.
ReturnFailedEndsLoop(p) ==
    /\ ctx[p].pc = "failed"
    /\ ctx' = [ctx EXCEPT ![p] = Frame(IF p = Loop THEN "none" ELSE "idle")]
    /\ ret' = NoRet
    /\ UNCHANGED <<now, memories, next_id, archive_index, files, running, enabled,
                   last_run, total_archived, wake_at, ops, deleted, q>>
    /\ UNCHANGED <<owners, tasks, fvars, tvars>>

\* The early return after a failed encoding (lines 323-342).
ReturnFailed(p) ==
    /\ ctx[p].pc = "failed"
    /\ Return(p, ArchiveStats(0, CountActive(memories, ctx[p].user_id), 0, 100))
    /\ UNCHANGED <<now, memories, next_id, archive_index, files, running, enabled,
                   ops, deleted, q>>
    /\ UNCHANGED <<owners, tasks, fvars, tvars>>

\* Mutant of Delete: the rows to delete are queried again instead of taken
\* from the rows selected.
DeleteRequery(p) ==
    /\ ctx[p].pc = "delete"
    /\ LET ids == Ids(SelectEligible(memories, ctx[p].user_id, Nil, Nil, now))
       IN /\ memories' = DeleteByIds(memories, ids)
          /\ deleted' = deleted \cup ids
    /\ ctx' = [ctx EXCEPT ![p].pc = "commit"]
    /\ ret' = NoRet
    /\ UNCHANGED <<now, next_id, archive_index, files, running, enabled, last_run,
                   total_archived, wake_at, ops, q>>
    /\ UNCHANGED <<owners, tasks, fvars, tvars>>

\* DELETE FROM memories WHERE id IN (...) (lines 355-363).
Delete(p) ==
    /\ ctx[p].pc = "delete"
    /\ memories' = DeleteByIds(memories, Ids(ctx[p].eligible))
    /\ deleted' = deleted \cup (Ids(ctx[p].eligible) \cap DOMAIN memories)
    /\ ctx' = [ctx EXCEPT ![p].pc = "commit"]
    /\ ret' = NoRet
    /\ UNCHANGED <<now, next_id, archive_index, files, running, enabled, last_run,
                   total_archived, wake_at, ops, q>>
    /\ UNCHANGED <<owners, tasks, fvars, tvars>>

\* conn.commit (line 364).
Commit(p) ==
    /\ ctx[p].pc = "commit"
    /\ ctx' = [ctx EXCEPT ![p].pc = "count"]
    /\ ret' = NoRet
    /\ UNCHANGED <<now, memories, next_id, archive_index, files, running, enabled,
                   last_run, total_archived, wake_at, ops, deleted, q>>
    /\ UNCHANGED <<owners, tasks, fvars, tvars>>

\* Mutant of ReturnArchived: the rows inserted after the newest selected row
\* are not counted.
ReturnArchivedStale(p) ==
    /\ ctx[p].pc = "count"
    /\ \E archive_size \in Sizes :
          Return(p, ArchiveStats(Len(ctx[p].eligible),
                                 CountActive([i \in {j \in DOMAIN memories :
                                                  \E k \in Ids(ctx[p].eligible) : j < k}
                                               |-> memories[i]], ctx[p].user_id),
                                 archive_size,
                                 CompressionRatio(OriginalSize(ctx[p].eligible),
                                                  archive_size)))
    /\ UNCHANGED <<now, memories, next_id, archive_index, files, running, enabled,
                   ops, deleted, q>>
    /\ UNCHANGED <<owners, tasks, fvars, tvars>>

\* The fresh count and the result (lines 366-390).
ReturnArchived(p) ==
    /\ ctx[p].pc = "count"
    /\ \E archive_size \in Sizes :
          Return(p, ArchiveStats(Len(ctx[p].eligible),
                                 CountActive(memories, ctx[p].user_id), archive_size,
                                 CompressionRatio(OriginalSize(ctx[p].eligible),
                                                  archive_size)))
    /\ UNCHANGED <<now, memories, next_id, archive_index, files, running, enabled,
                   ops, deleted, q>>
    /\ UNCHANGED <<owners, tasks, fvars, tvars>>

\* Mutant of start: a loop task is created whether or not one is running.
StartUnguarded ==
    /\ enabled' = TRUE
    /\ running' = TRUE
    /\ ctx' = [ctx EXCEPT ![Loop] = Frame("ready")]
    /\ tasks' = tasks + 1
    /\ ret' = NoRet
    /\ UNCHANGED <<now, memories, next_id, archive_index, files, last_run,
                   total_archived, wake_at, ops, deleted, q>>
    /\ UNCHANGED <<owners, fvars, tvars>>

\* ArchivalScheduler.start: creates the loop task unless already running.
start ==
    /\ IF running
       THEN UNCHANGED <<running, enabled, ctx, tasks>>
       ELSE /\ enabled' = TRUE
            /\ running' = TRUE
            /\ ctx' = [ctx EXCEPT ![Loop] = Frame("ready")]
            /\ tasks' = tasks + 1
    /\ ret' = NoRet
    /\ UNCHANGED <<now, memories, next_id, archive_index, files, last_run,
                   total_archived, wake_at, ops, deleted, q>>
    /\ UNCHANGED <<owners, fvars, tvars>>

\* _run_loop: while self.running: await self._run_archival().
LoopRun ==
    /\ ctx[Loop].pc = "ready"
    /\ IF ~running
       THEN /\ ctx' = [ctx EXCEPT ![Loop] = Frame("none")]
            /\ tasks' = tasks - 1
            /\ UNCHANGED ops
       ELSE RunArchival(Loop) /\ UNCHANGED tasks
    /\ ret' = NoRet
    /\ UNCHANGED <<now, memories, next_id, archive_index, files, running, enabled,
                   last_run, total_archived, wake_at, deleted, q>>
    /\ UNCHANGED <<owners, fvars, tvars>>

\* asyncio.sleep(self.interval) is over.
LoopWake ==
    /\ ctx[Loop].pc = "sleep"
    /\ now >= wake_at
    /\ ctx' = [ctx EXCEPT ![Loop] = Frame("ready")]
    /\ wake_at' = 0
    /\ ret' = NoRet
    /\ UNCHANGED <<now, memories, next_id, archive_index, files, running, enabled,
                   last_run, total_archived, ops, deleted, q>>
    /\ UNCHANGED <<owners, tasks, fvars, tvars>>

\* Mutant of stop: the task is cancelled and counted as ended whether or not
\* the scheduler is running.
StopUnguarded ==
    /\ running' = FALSE
    /\ wake_at' = 0
    /\ ctx' = [ctx EXCEPT ![Loop] = Frame("none")]
    /\ tasks' = tasks - 1
    /\ ret' = NoRet
    /\ UNCHANGED <<now, memories, next_id, archive_index, files, enabled, last_run,
                   total_archived, ops, deleted, q>>
    /\ UNCHANGED <<owners, fvars, tvars>>

\* ArchivalScheduler.stop: task.cancel() raises CancelledError at the await the
\* loop task is suspended in, which ends the task wherever it is.  A DELETE
\* already handed to the worker thread either still runs or is dropped.
stop ==
    /\ IF ~running
       THEN UNCHANGED <<running, ctx, wake_at, memories, deleted, tasks>>
       ELSE /\ running' = FALSE
            /\ wake_at' = 0
            /\ ctx' = [ctx EXCEPT ![Loop] = Frame("none")]
            /\ tasks' = tasks - 1
            /\ \/ UNCHANGED <<memories, deleted>>
               \/ /\ ctx[Loop].pc = "delete"
                  /\ memories' = DeleteByIds(memories, Ids(ctx[Loop].eligible))
                  /\ deleted' = deleted \cup
                                  (Ids(ctx[Loop].eligible) \cap DOMAIN memories)
    /\ ret' = NoRet
    /\ UNCHANGED <<now, next_id, archive_index, files, enabled, last_run,
                   total_archived, ops, q>>
    /\ UNCHANGED <<owners, fvars, tvars>>

\* Mutant of time_until_next_run: the seconds left are not held at 0.
TimeUntilNextRunSigned(is_running, last, clock_ms, interval) ==
    IF ~is_running \/ last = Nil THEN Nil
    ELSE Some((interval * 1000 - (clock_ms - last[1])) \div 1000)

\* _time_until_next_run: None unless running with a run in the history, else
\* the whole seconds left of the interval, not below 0.  clock_ms is
\* int(time.time() * 1000); `//` and \div both round down.
time_until_next_run(is_running, last, clock_ms, interval) ==
    IF ~is_running \/ last = Nil THEN Nil
    ELSE LET elapsed == clock_ms - last[1]
             remaining == interval * 1000 - elapsed
         IN Some(IF remaining \div 1000 > 0 THEN remaining \div 1000 ELSE 0)

\* ArchivalScheduler.get_status
get_status ==
    [running |-> running, enabled |-> enabled, interval_seconds |-> Interval,
     last_run |-> last_run, total_archived |-> total_archived,
     next_run_in |-> time_until_next_run(running, last_run, now * 1000, Interval)]

\* ---------------------------------------------------------------- get_stats
RECURSIVE SumOver(_, _)
\* The sum of f over the set S.
SumOver(f, S) ==
    IF S = {} THEN 0
    ELSE LET x == CHOOSE y \in S : TRUE IN f[x] + SumOver(f, S \ {x})

\* SELECT AVG(salience) FROM memories [WHERE user_id = ?], 0.0 for no row;
\* in hundredths, rounded down.
AvgSalience(mem, user_id) ==
    LET ids == {i \in DOMAIN mem : user_id = None \/ mem[i].user_id = user_id}
    IN IF ids = {} THEN 0
       ELSE SumOver([i \in ids |-> mem[i].salience], ids) \div Cardinality(ids)

\* The descriptors get_stats walks: those of user_id, or of every owner.
StatsArchives(index, user_id) ==
    IF user_id # None
    THEN IF user_id \in DOMAIN index THEN {<<user_id, t>> : t \in DOMAIN index[user_id]}
         ELSE {}
    ELSE UNION {{<<u, t>> : t \in DOMAIN index[u]} : u \in DOMAIN index}

\* Mutant of TotalSize: the archive size alone.
TotalSizeArchiveOnly(active_db_size, archive_size) == archive_size

\* total_size = active_db_size + archive_size
TotalSize(active_db_size, archive_size) == active_db_size + archive_size

\* total_size / active_db_size if active_db_size > 0 else 1.0, in hundredths.
SizeRatio(total_size, active_db_size) ==
    IF active_db_size > 0 THEN (total_size * 100) \div active_db_size ELSE 100

\* Path(archive_info["file"]).stat().st_size: the size, or Nil when it raises.
StatSizes == {Nil, Some(3)}

\* The user_id a caller of get_stats passes.
StatsUsers == {None, "u1"}

\* get_stats up to the answer to its COUNT query (lines 429-436, 443-449).
StatsCount ==
    /\ gs.pc = "idle"
    /\ ops <= MaxOps
    /\ ops' = ops + 1
    /\ \E user_id \in StatsUsers :
         gs' = [pc |-> "avg", user_id |-> user_id,
                active_count |-> CountActive(memories, user_id)]
    /\ ret' = NoRet
    /\ UNCHANGED <<now, memories, next_id, archive_index, files, ctx, running,
                   enabled, last_run, total_archived, wake_at, q, deleted,
                   owners, tasks>>
    /\ UNCHANGED <<fvars, st, rb>>

\* The answer to its AVG query (lines 438-442, 450-455).
StatsAvg ==
    /\ gs.pc = "avg"
    /\ gs' = [pc |-> "archives", user_id |-> gs.user_id,
              active_count |-> gs.active_count,
              avg_salience |-> AvgSalience(memories, gs.user_id)]
    /\ ret' = NoRet
    /\ UNCHANGED <<now, memories, next_id, archive_index, files, ctx, running,
                   enabled, last_run, total_archived, wake_at, ops, q, deleted,
                   owners, tasks>>
    /\ UNCHANGED <<fvars, st, rb>>

\* The rest of get_stats, without an await (lines 457-496): stat() of a
\* segment file gives its size or raises, and then the file is passed over.
StatsReturn ==
    /\ gs.pc = "archives"
    /\ \E active_db_size \in Sizes :
       \E st_size \in [StatsArchives(archive_index, gs.user_id) -> StatSizes] :
         LET walked == StatsArchives(archive_index, gs.user_id)
             found == {d \in walked : st_size[d] # Nil}
             archive_size == SumOver([d \in found |-> st_size[d][1]], found)
             total_size == TotalSize(active_db_size, archive_size)
         IN ret' = [kind |-> "system_stats",
                    user_id |-> gs.user_id,
                    active_count |-> gs.active_count,
                    archive_count |-> Cardinality(walked),
                    total_memories |-> gs.active_count + Cardinality(walked),
                    active_db_size |-> active_db_size,
                    archive_size |-> archive_size,
                    total_size |-> total_size,
                    compression_ratio |-> SizeRatio(total_size, active_db_size),
                    avg_salience |-> gs.avg_salience]
    /\ gs' = NoStats
    /\ UNCHANGED <<now, memories, next_id, archive_index, files, ctx, running,
                   enabled, last_run, total_archived, wake_at, ops, q, deleted,
                   owners, tasks>>
    /\ UNCHANGED <<fvars, st, rb>>

get_stats == StatsCount \/ StatsAvg \/ StatsReturn

\* Values a caller passes as k; 10 is the default.
Ks == {1, 10}

\* RememberSystem.query up to the answer of the active store (lines 152-173).
QueryActive ==
    /\ q.pc = "idle"
    /\ ops < MaxOps
    /\ ops' = ops + 1
    /\ \E query \in 1..(next_id - 1), k \in Ks, user_id \in UserArgs,
          include_archive \in BOOLEAN :
           q' = [pc |-> "archive", query |-> query, k |-> k, user_id |-> user_id,
                 include_archive |-> include_archive,
                 results |-> ActiveResults(memories, query, k, user_id)]
    /\ ret' = NoRet
    /\ UNCHANGED <<now, memories, next_id, archive_index, files, ctx, running,
                   enabled, last_run, total_archived, wake_at, deleted>>
    /\ UNCHANGED <<owners, tasks, fvars, tvars>>

\* The rest of RememberSystem.query: the archives, the sort, the top k.
QueryArchive ==
    /\ q.pc = "archive"
    /\ q' = [q EXCEPT !.pc = "done",
                      !.results = HybridResults(q.results, archive_index, files,
                                     q.query, q.k, q.user_id, q.include_archive)]
    /\ ret' = NoRet
    /\ UNCHANGED <<now, memories, next_id, archive_index, files, ctx, running,
                   enabled, last_run, total_archived, wake_at, ops, deleted>>
    /\ UNCHANGED <<owners, tasks, fvars, tvars>>

\* The caller has taken the results.
QueryReturn ==
    /\ q.pc = "done"
    /\ q' = NoQuery
    /\ ret' = NoRet
    /\ UNCHANGED <<now, memories, next_id, archive_index, files, ctx, running,
                   enabled, last_run, total_archived, wake_at, ops, deleted>>
    /\ UNCHANGED <<owners, tasks, fvars, tvars>>

\* What a caller gets when archive_old_memories raised.
Raised(via) == [kind |-> "raised", via |-> via]

\* The active store raises in one of the statements awaited after the
\* selection (a COUNT, the DELETE, the commit): archive_old_memories catches
\* nothing there.  _run_archival prints the exception and returns
\* (scheduler.py:113-114), and the loop goes on to its sleep; a tool handler
\* answers with the error.
Raise(p) ==
    /\ ctx[p].pc \in {"empty", "failed", "delete", "commit", "count"}
    /\ ctx' = [ctx EXCEPT ![p] = Frame(IF p = Loop THEN "sleep" ELSE "idle")]
    /\ wake_at' = IF p = Loop THEN now + Interval ELSE wake_at
    /\ ret' = Raised(ctx[p].via)
    /\ UNCHANGED <<now, memories, next_id, archive_index, files, running, enabled,
                   last_run, total_archived, ops, deleted, q>>
    /\ UNCHANGED <<owners, tasks, fvars, tvars>>

\* The steps of a call of archive_old_memories after its selection.
Migrate(p) ==
    \/ ReturnEmpty(p)
    \/ EncodeAndRegister(p)
    \/ EncodeFail(p)
    \/ ReturnFailed(p)
    \/ Delete(p)
    \/ Commit(p)
    \/ ReturnArchived(p)

\* The clock and the calls that add rows to the active store.
Environment ==
    \/ Tick
    \/ add_memory
    \/ recall_from_archive

\* The scheduler with its loop task, and one tool handler.
Next ==
    \/ Environment
    \/ start
    \/ stop
    \/ LoopRun
    \/ LoopWake
    \/ archive_memories("c1")
    \/ run_now("c1")
    \/ \E p \in {Loop, "c1"} : Migrate(p)

Spec == InitSched /\ [][Next]_vars

\* Two tool handlers running archive_memories, the scheduler never started.
NextCalls ==
    \/ Environment
    \/ \E p \in Callers : archive_memories(p)
    \/ \E p \in Callers : Migrate(p)

SpecCalls == Init /\ [][NextCalls]_vars

\* Queries next to one tool handler running archive_memories.
NextQuery ==
    \/ Tick
    \/ add_memory
    \/ archive_memories("c1")
    \/ Migrate("c1")
    \/ QueryActive
    \/ QueryArchive
    \/ QueryReturn

SpecQuery == Init /\ [][NextQuery]_vars

\* Recalls with any arguments next to one tool handler running archive_memories.
NextRecall ==
    \/ add_memory
    \/ recall_memory
    \/ archive_memories("c1")
    \/ Migrate("c1")

SpecRecall == Init /\ [][NextRecall]_vars

\* One tool handler calling archive_old_memories with any thresholds.
NextArgs ==
    \/ add_memory
    \/ archive_old_memories("c1")
    \/ Migrate("c1")

SpecArgs == Init /\ [][NextArgs]_vars

\* Two owners: add_memory, archive_memories and get_stats.
InitTwo ==
    /\ Boot
    /\ enabled = FALSE
    /\ owners = Users
    /\ fi = NoSearch
    /\ st = NoStatus
    /\ rb = NoRebuild
    /\ gs = NoStats
    /\ ix = NoIndexer

NextStats ==
    \/ add_memory
    \/ archive_memories("c1")
    \/ Migrate("c1")
    \/ get_stats

SpecStats == InitTwo /\ [][NextStats]_vars

\* The scheduler alone: start, stop, run_now and the loop task.
NextSched ==
    \/ Tick
    \/ add_memory
    \/ start
    \/ stop
    \/ LoopRun
    \/ LoopWake
    \/ run_now("c1")
    \/ \E p \in {Loop, "c1"} : Migrate(p)

SpecSched == InitSched /\ [][NextSched]_vars

\* The scheduler, the active store raising in some of its invocations.
NextHistory ==
    \/ NextSched
    \/ \E p \in {Loop, "c1"} : Raise(p)

SpecHistory == InitSched /\ [][NextHistory]_vars

\* The loop task on a store filled beforehand; the clock advances while the
\* loop sleeps.
LiveTick == Tick /\ ctx[Loop].pc = "sleep" /\ now < wake_at

NextLive ==
    \/ add_memory /\ ops = 0
    \/ LiveTick
    \/ start
    \/ stop
    \/ LoopRun
    \/ LoopWake
    \/ Migrate(Loop)

\* The event loop resumes a task that can run, the worker thread finishes the
\* call it was given, and time passes.
Fairness ==
    /\ WF_vars(LiveTick)
    /\ WF_vars(LoopRun)
    /\ WF_vars(LoopWake)
    /\ WF_vars(Migrate(Loop))

SpecLive == InitSched /\ [][NextLive]_vars /\ Fairness

\* Queries next to the scheduler: its loop task and run_now, no other caller
\* of archive_old_memories.
NextHybrid ==
    \/ Tick
    \/ add_memory
    \/ start
    \/ LoopRun
    \/ LoopWake
    \/ run_now("c1")
    \/ \E p \in {Loop, "c1"} : Migrate(p)
    \/ QueryActive
    \/ QueryArchive
    \/ QueryReturn

SpecHybrid == InitSched /\ [][NextHybrid]_vars

\* ----------------------------------------------------------- FileIndexer
\* The keys of FileIndexer.metadata, in the order of the dict.
FileHashes == <<"h1", "h2">>

\* estimated_score = 1.0 - (idx * 0.1), in hundredths.
EstimatedScore(idx) == 100 - idx * 10

\* The results appended for one indexed file whose retriever returns n chunks
\* (lines 322-345): enumerate(hits) counts from 0.
FileResults(file_hash, n) ==
    [i \in 1..n |-> [content |-> <<file_hash, i>>, score |-> EstimatedScore(i - 1),
                     file_hash |-> file_hash]]

RECURSIVE AllFileResults(_, _, _)
\* The loop over self.metadata: retriever.search(query, top_k) returns at most
\* top_k of the chunks of a file; a file that is filtered out, missing or
\* whose search raises adds nothing, like a file with no chunk.
AllFileResults(hashes, chunks, top_k) ==
    IF hashes = <<>> THEN <<>>
    ELSE FileResults(Head(hashes),
                     IF top_k < chunks[Head(hashes)] THEN top_k ELSE chunks[Head(hashes)])
         \o AllFileResults(Tail(hashes), chunks, top_k)

\* FileIndexer.search: sort by score, return the first top_k (lines 351-353).
SearchResults(chunks, top_k) ==
    Take(SortByScore(AllFileResults(FileHashes, chunks, top_k)), top_k)

\* A call of FileIndexer.search: top_k and the chunks each indexed file has.
SearchCalls ==
    {[pc |-> "call", top_k |-> k, chunks |-> c, results |-> <<>>] :
        k \in 0..MaxTopK, c \in [Range(FileHashes) -> 0..MaxTopK]}

InitSearch ==
    /\ Boot
    /\ enabled = FALSE
    /\ owners = {"u1"}
    /\ fi \in SearchCalls
    /\ st = NoStatus
    /\ rb = NoRebuild
    /\ gs = NoStats
    /\ ix = NoIndexer

search ==
    /\ fi.pc = "call"
    /\ fi' = [fi EXCEPT !.pc = "done", !.results = SearchResults(fi.chunks, fi.top_k)]
    /\ UNCHANGED <<svars, tvars, ix>>

NextSearch == search

SpecSearch == InitSearch /\ [][NextSearch]_vars

\* ------------------------------------------------- FileIndexer.index_file
\* What a file holds.
Contents == {"x", "y"}

\* No file at a path.
Missing == "missing"

\* The absolute paths of the files, the process running in /d.
AbsPaths == {"/d/a", "/d/b"}

\* The file_path arguments of the callers: absolute, or relative to /d.
PathArgs == AbsPaths \cup {"a"}

\* os.path.abspath(file_path)
Abspath(file_path) == IF file_path = "a" THEN "/d/a" ELSE file_path

\* _compute_file_hash: the SHA-256 of the bytes, as hex digest.
Sha256(content) == IF content = "x" THEN "2d71" ELSE "a1fc"

\* Mutant of AlreadyIndexed: the hash alone decides.
AlreadyIndexedByHash(metadata, file_hash, file_path) == file_hash \in DOMAIN metadata

\* if file_hash in self.metadata: ... if existing['file_path'] == file_path
AlreadyIndexed(metadata, file_hash, file_path) ==
    /\ file_hash \in DOMAIN metadata
    /\ metadata[file_hash].file_path = file_path

\* A FileIndexer on an empty index_dir, and the files on disk.
InitIndexer ==
    /\ Boot
    /\ enabled = FALSE
    /\ owners = {"u1"}
    /\ fi = NoSearch
    /\ st = NoStatus
    /\ rb = NoRebuild
    /\ gs = NoStats
    /\ \E disk \in [AbsPaths -> Contents \cup {Missing}] :
         ix = [pc |-> "ready", disk |-> disk, metadata |-> <<>>, videos |-> {},
               builds |-> 0, clock |-> 0, calls |-> 0, result |-> [status |-> "none"]]

\* A file is written, overwritten or removed.
write_file ==
    /\ ix.pc = "ready"
    /\ ix.calls < MaxOps
    /\ \E path \in AbsPaths, content \in Contents \cup {Missing} :
         /\ ix.disk[path] # content
         /\ ix' = [ix EXCEPT !.disk[path] = content, !.calls = ix.calls + 1,
                             !.clock = ix.clock + 1,
                             !.result = [status |-> "none"]]
    /\ UNCHANGED <<svars, tvars, fi>>

\* FileIndexer.index_file (lines 92-218).
index_file ==
    /\ ix.pc = "ready"
    /\ ix.calls < MaxOps
    /\ \E arg \in PathArgs :
         LET file_path == Abspath(arg)
             file_hash == Sha256(ix.disk[file_path])
         IN IF ix.disk[file_path] = Missing
            THEN ix' = [ix EXCEPT !.calls = ix.calls + 1, !.clock = ix.clock + 1,
                                  !.result = [status |-> "FileNotFoundError",
                                              file_path |-> file_path]]
            ELSE IF AlreadyIndexed(ix.metadata, file_hash, file_path)
            THEN ix' = [ix EXCEPT !.calls = ix.calls + 1, !.clock = ix.clock + 1,
                                  !.result = [status |-> "already_indexed",
                                              file_path |-> file_path,
                                              file_hash |-> file_hash,
                                              indexed_at |->
                                                  ix.metadata[file_hash].indexed_at]]
            ELSE ix' = [ix EXCEPT !.calls = ix.calls + 1, !.clock = ix.clock + 1,
                                  !.videos = ix.videos \cup {file_hash},
                                  !.builds = ix.builds + 1,
                                  !.metadata = (file_hash :>
                                                  [file_path |-> file_path,
                                                   file_hash |-> file_hash,
                                                   indexed_at |-> ix.clock])
                                               @@ ix.metadata,
                                  !.result = [status |-> "indexed",
                                              file_path |-> file_path,
                                              file_hash |-> file_hash]]
    /\ UNCHANGED <<svars, tvars, fi>>

NextIndexer ==
    \/ write_file
    \/ index_file

SpecIndexer == InitIndexer /\ [][NextIndexer]_vars

\* ------------------------------------------------- _time_until_next_run
\* Instants of int(time.time() * 1000): whole and half seconds.
Instants == {s * 1000 + f : s \in 0..MaxSeconds, f \in {0, 500}}

\* A call of _time_until_next_run: `running`, `last_run` (None, or the instant
\* a run was recorded), the clock (not before last_run) and interval_seconds.
StatusCalls ==
    {[pc |-> "call", running |-> r, last_run |-> l, clock_ms |-> c,
      interval |-> i, result |-> Nil] :
        r \in BOOLEAN, l \in {Nil} \cup {Some(t) : t \in Instants},
        c \in Instants, i \in {Interval, Interval + 1}}

InitStatus ==
    /\ Boot
    /\ enabled = FALSE
    /\ owners = {"u1"}
    /\ fi = NoSearch
    /\ st \in {c \in StatusCalls : c.last_run # Nil => c.last_run[1] <= c.clock_ms}
    /\ rb = NoRebuild
    /\ gs = NoStats
    /\ ix = NoIndexer

next_run_in ==
    /\ st.pc = "call"
    /\ st' = [st EXCEPT !.pc = "done",
                        !.result = time_until_next_run(st.running, st.last_run,
                                                       st.clock_ms, st.interval)]
    /\ UNCHANGED <<svars, fvars, rb, gs>>

NextStatus == next_run_in

SpecStatus == InitStatus /\ [][NextStatus]_vars

\* ------------------------------------------------- _load_archive_index
\* A file name is the sequence of the parts of its stem between underscores
\* (stem.split("_")); a number is written with its digit.
DigitStr == <<"0", "1", "2", "3", "4", "5", "6", "7", "8", "9">>

\* str(timestamp)
StrOf(n) == DigitStr[n + 1]

\* int(tok) returns a number; otherwise it raises ValueError.
IsNumeric(tok) == tok \in Range(DigitStr)

\* int(tok)
IntOf(tok) == CHOOSE n \in 0..(Len(DigitStr) - 1) : StrOf(n) = tok

\* The parts of a user id between its underscores.
IdParts(user_id) ==
    CASE user_id = "u_1" -> <<"u", "1">>
      [] user_id = "a_b" -> <<"a", "b">>
      [] OTHER -> <<user_id>>

\* f"user_{user_id or 'default'}_{timestamp}" as the parts of the stem.
FileName(stem) == <<"user">> \o IdParts(stem.owner) \o <<StrOf(stem.ts)>>

\* stem.startswith("user_") and len(parts) >= 3
Parses(parts) == parts[1] = "user" /\ Len(parts) >= 3

\* int(timestamp) raises for a file that parses: __init__ does not return.
Crashes(dir) == \E f \in dir : Parses(f) /\ ~IsNumeric(f[3])

\* The (user_id, timestamp) keys assigned: parts[1] and parts[2] of the code.
LoadKeys(dir) == {<<f[2], IntOf(f[3])>> : f \in {g \in dir : Parses(g)}}

\* Which file is the last to be assigned to each key (the order of glob).
Picks(dir) ==
    {pick \in [LoadKeys(dir) -> dir] :
        \A k \in LoadKeys(dir) :
            Parses(pick[k]) /\ pick[k][2] = k[1] /\ IntOf(pick[k][3]) = k[2]}

\* archive_index after the loop; the key str(timestamp) is shown as a number.
Loaded(dir, pick) ==
    [u \in {k[1] : k \in LoadKeys(dir)} |->
        [t \in {k[2] : k \in {x \in LoadKeys(dir) : x[1] = u}} |->
            [file |-> pick[<<u, t>>], index |-> pick[<<u, t>>], created_at |-> t]]]

\* User ids given to migrations, None among them.
RebuildOwners == {"u1", "u_1", "a_b", None}

\* The files archive_dir can hold: segments written by migrations, a file
\* with another prefix, one with too few parts, one whose last part is no number.
NamePool ==
    {FileName(Stem(o, t)) : o \in RebuildOwners, t \in 1..MaxStamp}
    \cup {<<"notes">>, <<"user", "x">>, <<"user", "bob", "abc">>}

RebuildCalls == {[pc |-> "call", dir |-> d, result |-> <<>>] : d \in SUBSET NamePool}

InitRebuild ==
    /\ Boot
    /\ enabled = FALSE
    /\ owners = {"u1"}
    /\ fi = NoSearch
    /\ st = NoStatus
    /\ gs = NoStats
    /\ ix = NoIndexer
    /\ rb \in RebuildCalls

\* RememberSystem.__init__ -> _load_archive_index
load_archive_index ==
    /\ rb.pc = "call"
    /\ IF Crashes(rb.dir)
       THEN rb' = [rb EXCEPT !.pc = "done", !.result = [kind |-> "ValueError"]]
       ELSE \E pick \in Picks(rb.dir) :
               rb' = [rb EXCEPT !.pc = "done",
                                !.result = [kind |-> "index",
                                            index |-> Loaded(rb.dir, pick)]]
    /\ UNCHANGED <<svars, fvars, st, gs>>

NextRebuild == load_archive_index

SpecRebuild == InitRebuild /\ [][NextRebuild]_vars

\* ------------------------------------------------------------------ restart
\* archive_dir as glob sees it: the names of the segment files written so far.
ArchiveDir(fs) == {FileName(f) : f \in DOMAIN fs}

\* The registry _load_archive_index builds from the files of this run, each
\* descriptor naming the file it was read from.
Restored(fs, pick) ==
    LET index == Loaded(ArchiveDir(fs), pick)
    IN [u \in DOMAIN index |->
          [t \in DOMAIN index[u] |->
              LET f == CHOOSE g \in DOMAIN fs : FileName(g) = index[u][t].file
              IN [file |-> f, index |-> f, created_at |-> t]]]

\* The process is stopped while no call is in progress and started again on
\* the same database and archive_dir: RememberSystem.__init__ rebuilds the
\* registry, the scheduler is constructed anew.  A rebuild that raises leaves
\* no system to call.
restart ==
    /\ ops < MaxOps
    /\ ops' = ops + 1
    /\ \A p \in Procs : ~InFlight(p)
    /\ q.pc = "idle"
    /\ ~Crashes(ArchiveDir(files))
    /\ \E pick \in Picks(ArchiveDir(files)) : archive_index' = Restored(files, pick)
    /\ ctx' = [p \in Procs |-> Frame(IF p = Loop THEN "none" ELSE "idle")]
    /\ running' = FALSE
    /\ last_run' = Nil
    /\ total_archived' = 0
    /\ wake_at' = 0
    /\ tasks' = 0
    /\ ret' = NoRet
    /\ UNCHANGED <<now, memories, next_id, files, enabled, q, deleted, owners>>
    /\ UNCHANGED <<fvars, tvars>>

\* Two tenants whose ids differ after an underscore.
InitTenants ==
    /\ Boot
    /\ enabled = FALSE
    /\ owners = {"u", "u_1"}
    /\ fi = NoSearch
    /\ st = NoStatus
    /\ rb = NoRebuild
    /\ gs = NoStats
    /\ ix = NoIndexer

\* Queries next to one tool handler running archive_memories, and restarts.
NextTenants ==
    \/ add_memory
    \/ archive_memories("c1")
    \/ Migrate("c1")
    \/ restart
    \/ QueryActive
    \/ QueryArchive
    \/ QueryReturn

SpecTenants == InitTenants /\ [][NextTenants]_vars

\* ------------------------------------------- _query_archives with failures
\* Mutant of ArchiveResultsExcept: the first archive that raises ends the loop.
RECURSIVE ArchiveResultsUntilFailure(_, _, _, _, _, _)
ArchiveResultsUntilFailure(fs, user_archives, stamps, query, k, failing) ==
    IF stamps = {} THEN <<>>
    ELSE LET t == CHOOSE x \in stamps : \A y \in stamps : x <= y
         IN IF user_archives[t].file \in failing THEN <<>>
            ELSE SegmentResults(fs, user_archives[t], t, query, k)
                 \o ArchiveResultsUntilFailure(fs, user_archives, stamps \ {t},
                                               query, k, failing)

\* _query_archives where MemvidRetriever(...) or retriever.search raises for
\* the archives in `failing`: printed, and the loop continues (lines 228-230).
RECURSIVE ArchiveResultsExcept(_, _, _, _, _, _)
ArchiveResultsExcept(fs, user_archives, stamps, query, k, failing) ==
    IF stamps = {} THEN <<>>
    ELSE LET t == CHOOSE x \in stamps : \A y \in stamps : x <= y
         IN (IF user_archives[t].file \in failing THEN <<>>
             ELSE SegmentResults(fs, user_archives[t], t, query, k))
            \o ArchiveResultsExcept(fs, user_archives, stamps \ {t}, query, k, failing)

\* The rest of RememberSystem.query, any of the searched archives raising.
QueryArchiveFaulty ==
    /\ q.pc = "archive"
    /\ \E failing \in SUBSET SearchedSegments(archive_index, q.user_id, q.include_archive) :
         LET archive_results ==
                 IF q.include_archive /\ q.user_id \in DOMAIN archive_index
                 THEN ArchiveResultsExcept(files, archive_index[q.user_id],
                                           DOMAIN archive_index[q.user_id],
                                           q.query, q.k, failing)
                 ELSE <<>>
         IN q' = [pc |-> "done", query |-> q.query, k |-> q.k, user_id |-> q.user_id,
                  include_archive |-> q.include_archive,
                  results |-> Take(SortByScore(q.results \o archive_results), q.k),
                  active |-> q.results, failed |-> failing]
    /\ ret' = NoRet
    /\ UNCHANGED <<now, memories, next_id, archive_index, files, ctx, running,
                   enabled, last_run, total_archived, wake_at, ops, deleted>>
    /\ UNCHANGED <<owners, tasks, fvars, tvars>>

\* Records 1..MaxRows of u1, all added in second 0.
MaxRows == 3
RowOf(i) == [id |-> i, user_id |-> "u1", content |-> i, salience |-> 10, created_at |-> 0]

\* The system after migrations of u1 in the seconds 1..MaxStamp: place[i] is
\* the second in which record i was archived, 0 for a record still active.
InitFaults ==
    /\ \E place \in [1..MaxRows -> 0..MaxStamp] :
         LET stamps == {t \in 1..MaxStamp : \E i \in 1..MaxRows : place[i] = t}
             rows(t) == SortRows({RowOf(i) : i \in {j \in 1..MaxRows : place[j] = t}})
             active == {i \in 1..MaxRows : place[i] = 0}
         IN /\ memories = [i \in active |->
                             [user_id |-> "u1", content |-> i, salience |-> 10,
                              created_at |-> 0]]
            /\ files = [f \in {Stem("u1", t) : t \in stamps} |-> Segment(rows(f.ts))]
            /\ archive_index =
                 IF stamps = {} THEN <<>>
                 ELSE [u \in {"u1"} |->
                         [t \in stamps |-> [file |-> Stem("u1", t),
                                            index |-> Stem("u1", t),
                                            created_at |-> t]]]
            /\ deleted = (1..MaxRows) \ active
    /\ now = MaxStamp
    /\ next_id = MaxRows + 1
    /\ ctx = [p \in Procs |-> Frame(IF p = Loop THEN "none" ELSE "idle")]
    /\ running = FALSE
    /\ enabled = FALSE
    /\ last_run = Nil
    /\ total_archived = 0
    /\ wake_at = 0
    /\ ret = NoRet
    /\ ops = 0
    /\ q = NoQuery
    /\ tasks = 0
    /\ owners = {"u1"}
    /\ fi = NoSearch
    /\ st = NoStatus
    /\ rb = NoRebuild
    /\ gs = NoStats
    /\ ix = NoIndexer

\* Queries on a system at rest, archives failing to open or to search.
NextFaults ==
    \/ QueryActive
    \/ QueryArchiveFaulty
    \/ QueryReturn

SpecFaults == InitFaults /\ [][NextFaults]_vars

\* ================================================================ claims
\* The ids of all records ever inserted into the active store.
Added == 1..(next_id - 1)

\* The descriptors listed in the archive registry.
Registered ==
    UNION {{archive_index[u][t] : t \in DOMAIN archive_index[u]} : u \in DOMAIN archive_index}

\* The records whose content is in a segment the registry lists.
RegisteredIds == UNION {Range(files[d.file].src) : d \in Registered}

\* The registry as a set of (owner, timestamp) entries.
Entries(index) == UNION {{<<u, t>> : t \in DOMAIN index[u]} : u \in DOMAIN index}

\* The step in which coroutine p leaves position `from` for position `to`.
Moves(p, from, to) == ctx[p].pc = from /\ ctx'[p].pc = to

\* C1: every record ever added is still in the active store or has its
\* content in a segment listed in the archive registry.
C1_ActiveOrArchived ==
    \A i \in Added : i \in DOMAIN memories \/ i \in RegisteredIds

\* C2: the steps of a call whose encoding failed (the failure and the early
\* return after it) add no descriptor to the registry and delete no record:
\* registry and active store are the same after each of them.
C2_FailedEncodingChangesNothing ==
    [][\A p \in Procs :
          (Moves(p, "encode", "failed") \/ (ctx[p].pc = "failed" /\ ctx'[p].pc # "failed"))
          => archive_index' = archive_index /\ memories' = memories]_vars

\* A call whose encoding failed, with the rows it selected still active.
C2_Witness ==
    \E p \in Procs :
        /\ ctx[p].pc = "failed"
        /\ Ids(ctx[p].eligible) \subseteq DOMAIN memories
        /\ Ids(ctx[p].eligible) \cap RegisteredIds = {}

\* C3: once a migration has deleted its records, the descriptor of the
\* segment holding their content is in the registry.
C3_RegisteredBeforeDeleted ==
    \A p \in Procs :
        ctx[p].pc \in {"commit", "count"} => Ids(ctx[p].eligible) \subseteq RegisteredIds

\* C4: at most one execution of archive_old_memories is in flight.
C4_OneMigrationInFlight ==
    Cardinality({p \in Procs : InFlight(p)}) <= 1

\* C5: no record is in two archive segments of the registry.
C5_NoDoubleMigration ==
    \A d1 \in Registered, d2 \in Registered :
        d1 # d2 => Range(files[d1.file].src) \cap Range(files[d2.file].src) = {}

\* C6: rows leave the active store only in the deletion step of a migration
\* that selected them, and that step removes every row it selected; the rows
\* that stay are unchanged.
C6_DeletesExactlySelectedIds ==
    [][/\ \A i \in DOMAIN memories \ DOMAIN memories' :
             \E p \in Procs : /\ ctx[p].pc = "delete"
                              /\ ctx'[p].pc # "delete"
                              /\ i \in Ids(ctx[p].eligible)
       /\ \A i \in DOMAIN memories \cap DOMAIN memories' : memories'[i] = memories[i]
       /\ \A p \in Procs :
             Moves(p, "delete", "commit")
             => Ids(ctx[p].eligible) \cap DOMAIN memories' = {}]_vars

\* A migration has deleted its rows, and a row inserted after its selection,
\* eligible under the system thresholds for the same user, is still active.
C6_Witness ==
    \E p \in Procs :
        /\ ctx[p].pc = "commit"
        /\ \E i \in DOMAIN memories :
              /\ \A j \in Ids(ctx[p].eligible) : i > j
              /\ IsEligible(memories[i], ctx[p].user_id,
                            now * 1000 - archive_threshold_days * MsPerDay,
                            archive_min_salience)

\* C7: the encoding step of every migration that archives records adds
\* exactly one descriptor to the registry, under the owner given or under
\* "default" when none is given.
C7_OneDescriptorPerMigration ==
    [][\A p \in Procs :
          Moves(p, "encode", "delete")
          => \E t \in 0..now :
                Entries(archive_index') \ Entries(archive_index)
                    = {<<Stem(ctx[p].user_id, t).owner, t>>}]_vars

\* C8: a registered descriptor and the segment it names never change.
C8_RegistryAppendOnly ==
    [][\A u \in DOMAIN archive_index : \A t \in DOMAIN archive_index[u] :
          /\ u \in DOMAIN archive_index'
          /\ t \in DOMAIN archive_index'[u]
          /\ archive_index'[u][t] = archive_index[u][t]
          /\ files'[archive_index[u][t].file] = files[archive_index[u][t].file]]_vars

\* C9: no query returns the same migrated record both as an ACTIVE result
\* and as an ARCHIVE result.
C9_NeverInBothTiers ==
    q.pc = "done"
    => \A m \in DOMAIN q.results, n \in DOMAIN q.results :
          ~ /\ q.results[m].location = "active"
            /\ q.results[n].location = "archive"
            /\ q.results[m].src = q.results[n].src

\* C9 as amended: a query that reads the active store after a migration's
\* DELETE gets none of the records that migration deleted as an ACTIVE result.
C9_NoActiveHitAfterDeletion ==
    [][(q.pc = "idle" /\ q'.pc = "archive")
       => \A n \in DOMAIN q'.results : q'.results[n].src \notin deleted]_vars

\* A query for all results of a user that ran after a migration deleted a
\* record of that user returns the record as an ARCHIVE result only.
C9_Witness ==
    /\ q.pc = "done"
    /\ q.k = 10
    /\ \E n \in DOMAIN q.results :
          /\ q.results[n].location = "archive"
          /\ q.results[n].src \in deleted
          /\ \A m \in DOMAIN q.results :
                q.results[m].location = "active" => q.results[m].src # q.results[n].src

\* C10: a call whose encoding failed ends with an error, not with a result.
C10_EncodingFailureSurfaced ==
    [][\A p \in Procs :
          (ctx[p].pc = "failed" /\ ctx'[p].pc \in {"idle", "sleep"})
          => ret'.kind = "error"]_vars

\* The step in which coroutine p returns from archive_old_memories at `from`.
Returns(p, from) == ctx[p].pc = from /\ ctx'[p].pc \in {"idle", "sleep"}

\* The rows of the active store a count for user_id counts.
RowsOf(mem, user_id) == {i \in DOMAIN mem : user_id = None \/ mem[i].user_id = user_id}

\* The registry lists segment f for owner user_id.
RegisteredFor(user_id, f) ==
    /\ user_id \in DOMAIN archive_index
    /\ \E t \in DOMAIN archive_index[user_id] : archive_index[user_id][t].file = f

\* C11: a call that finds nothing eligible returns a result with
\* archived_count 0, size 0, ratio 1.0 and the current count of the owner's
\* (or of all) active records; it writes no segment, no descriptor, and deletes
\* nothing.
C11_NothingEligibleZeroResult ==
    [][\A p \in Procs :
          Returns(p, "empty")
          => /\ ret' = [kind |-> "stats", archived_count |-> 0,
                        active_remaining |-> Cardinality(RowsOf(memories', ctx[p].user_id)),
                        archive_size_bytes |-> 0, compression_ratio |-> 100]
             /\ memories' = memories
             /\ archive_index' = archive_index
             /\ files' = files]_vars

\* A call found nothing eligible while active records of the owner exist.
C11_Witness ==
    \E p \in Callers :
        /\ ctx[p].pc = "empty"
        /\ RowsOf(memories, ctx[p].user_id) # {}

\* C12: a migration that completes reports the number of rows it selected,
\* those rows have left the active store, and the registry lists a segment
\* holding exactly them.
C12_ArchivesExactlyEligible ==
    [][\A p \in Procs :
          Returns(p, "count")
          => /\ ret'.archived_count = Len(ctx[p].eligible)
             /\ Ids(ctx[p].eligible) \cap DOMAIN memories' = {}
             /\ \E d \in Registered :
                   Range(files[d.file].src) = Ids(ctx[p].eligible)]_vars

\* C13: the active_remaining a migration returns is the number of the owner's
\* rows in the active store when it returns, after its rows were deleted.
C13_FreshCountAfterDeletion ==
    [][\A p \in Procs :
          Returns(p, "count")
          => /\ ret'.active_remaining = Cardinality(RowsOf(memories', ctx[p].user_id))
             /\ Ids(ctx[p].eligible) \cap DOMAIN memories' = {}]_vars

\* A migration is about to count, and a row it would have selected under the
\* system thresholds was inserted after its selection.
C13_Witness ==
    \E p \in Callers :
        /\ ctx[p].pc = "count"
        /\ \E i \in DOMAIN memories \ Ids(ctx[p].eligible) :
              IsEligible(memories[i], ctx[p].user_id,
                         now * 1000 - archive_threshold_days * MsPerDay,
                         archive_min_salience)

\* C14: every recall adds exactly one new row, holding the given text for the
\* given owner, and changes no other row: the owner's count grows by one.
C14_RecallAddsOneRecord ==
    [][ret'.kind = "memory"
       => /\ ret'.id \notin DOMAIN memories
          /\ DOMAIN memories' = DOMAIN memories \cup {ret'.id}
          /\ memories'[ret'.id].content = ret'.content
          /\ memories'[ret'.id].user_id = ret'.user_id
          /\ \A i \in DOMAIN memories : memories'[i] = memories[i]
          /\ Cardinality(RowsOf(memories', ret'.user_id))
                = Cardinality(RowsOf(memories, ret'.user_id)) + 1]_vars

\* A recall has named an existing segment that does not hold the text.
C14_Witness ==
    /\ ret.kind = "memory"
    /\ ret.recalled_from \in DOMAIN files
    /\ ret.content \notin Range(files[ret.recalled_from].chunks)

\* C15: a recall changes neither the registry nor any segment.
C15_RecallLeavesArchive ==
    [][ret'.kind = "memory" => archive_index' = archive_index /\ files' = files]_vars

\* A recall of a text from the registered segment that holds it.
C15_Witness ==
    /\ ret.kind = "memory"
    /\ \E d \in Registered :
          /\ d.file = ret.recalled_from
          /\ ret.content \in Range(files[d.file].chunks)

\* C16: a recall succeeds only for a segment the registry lists.
C16_NotFoundForUnregistered ==
    [][ret'.kind = "memory"
       => \E d \in Registered : d.file = ret'.recalled_from]_vars

\* C16 as amended: no recall ends with an error; a recall naming a segment
\* the registry does not list for the owner adds one row like any other.
C16_UnregisteredRecallSucceeds ==
    [][/\ ret'.kind # "error"
       /\ (ret'.kind = "memory" /\ ~RegisteredFor(ret'.user_id, ret'.recalled_from))
          => /\ ret'.id \in DOMAIN memories' \ DOMAIN memories
             /\ Cardinality(DOMAIN memories') = Cardinality(DOMAIN memories) + 1]_vars

\* A recall naming a segment that does not exist has added its row.
C16_Witness ==
    /\ ret.kind = "memory"
    /\ ret.recalled_from = NoFile
    /\ ret.id \in DOMAIN memories

\* The step in which the query merges its active hits with the archive hits.
Merges == q.pc = "archive" /\ q'.pc = "done"

\* The hits the merge starts from: the active hits, then the archive hits.
Pool ==
    q.results \o ArchiveHits(archive_index, files, q.query, q.k, q.user_id,
                             q.include_archive)

\* The place of hit h in the sequence s.
Pos(s, h) == CHOOSE i \in DOMAIN s : s[i] = h

Min(a, b) == IF a < b THEN a ELSE b

\* C17: a query returns at most k results in non-increasing order of score,
\* and they are the k best of its active hits and archive hits taken together.
C17_TopKOfBothTiers ==
    [][Merges
       => /\ Len(q'.results) = Min(q.k, Len(Pool))
          /\ Range(q'.results) \subseteq Range(Pool)
          /\ Cardinality(Range(q'.results)) = Len(q'.results)
          /\ \A m \in DOMAIN q'.results, n \in DOMAIN q'.results :
                m < n => q'.results[m].score >= q'.results[n].score
          /\ \A h \in Range(Pool) \ Range(q'.results), r \in Range(q'.results) :
                h.score <= r.score]_vars

\* A query returned an archive hit ahead of an active hit with a lower score.
C17_Witness ==
    /\ q.pc = "done"
    /\ \E m \in DOMAIN q.results, n \in DOMAIN q.results :
          /\ m < n
          /\ q.results[m].location = "archive"
          /\ q.results[n].location = "active"
          /\ q.results[m].score > q.results[n].score

\* C18: results of equal score keep the order in which the hits were
\* produced, so an ACTIVE result comes before an ARCHIVE result of the same
\* score, and at the cut to k the ACTIVE one is the one kept.
C18_StableRanking ==
    [][Merges
       => /\ \A m \in DOMAIN q'.results, n \in DOMAIN q'.results :
                (m < n /\ q'.results[m].score = q'.results[n].score)
                => Pos(Pool, q'.results[m]) < Pos(Pool, q'.results[n])
          /\ \A h \in Range(Pool), r \in Range(q'.results) :
                (h.score = r.score /\ h.location = "active" /\ r.location = "archive")
                => h \in Range(q'.results)]_vars

\* A query cut to one result kept an active hit and dropped an archive hit of
\* the same score.
C18_Witness ==
    /\ q.pc = "done"
    /\ q.k = 1
    /\ Len(q.results) = 1
    /\ q.results[1].location = "active"
    /\ \E h \in Range(ArchiveHits(archive_index, files, q.query, q.k, q.user_id,
                                   q.include_archive)) :
          h.score = q.results[1].score

\* C19: an ARCHIVE result has 0.8 times the score the codec gave its text,
\* salience 0, sector "semantic", and the creation time and file of a segment
\* of the user that holds the text; an ACTIVE result has the score of the
\* active store.
C19_ArchiveScorePenalty ==
    [][Merges
       => \A r \in Range(q'.results) :
             /\ r.location = "active" => r.score = Similarity(q.query, r.content)
             /\ r.location = "archive"
                => /\ r.score * 10 = Similarity(q.query, r.content) * 8
                   /\ r.score <= Similarity(q.query, r.content)
                   /\ r.salience = 0
                   /\ r.primary_sector = "semantic"
                   /\ \E t \in DOMAIN archive_index[q.user_id] :
                         /\ r.archive_file = archive_index[q.user_id][t].file
                         /\ r.archived_at = Some(archive_index[q.user_id][t].created_at)
                         /\ r.content \in Range(files[r.archive_file].chunks)]_vars

\* A query returned a result of each tier.
C19_Witness ==
    /\ q.pc = "done"
    /\ \E r \in Range(q.results) : r.location = "archive"
    /\ \E r \in Range(q.results) : r.location = "active"

\* C20: the score derived from the rank of a hit is never below 0 and never
\* above 1, however many hits there are.
C20_RankScoreBounded ==
    fi.pc = "done"
    => \A n \in DOMAIN fi.results :
          fi.results[n].score >= 0 /\ fi.results[n].score <= 100

\* C21: a query with no owner, or with include_archive false, or of an owner
\* with no registered segment opens no segment and returns ACTIVE results
\* only (its active hits, unchanged), whatever segments archive_dir holds.
C21_ArchiveSearchSkipped ==
    [][(Merges /\ (\/ q.user_id = None
                   \/ ~q.include_archive
                   \/ q.user_id \notin DOMAIN archive_index))
       => /\ SearchedSegments(archive_index, q.user_id, q.include_archive) = {}
          /\ q'.results = q.results
          /\ \A r \in Range(q'.results) : r.location = "active"]_vars

\* A query with no owner and include_archive returned active hits only while
\* a registered segment of an owner held the very text it asked for.
C21_Witness ==
    /\ q.pc = "done"
    /\ q.user_id = None
    /\ q.include_archive
    /\ q.results # <<>>
    /\ \E d \in Registered : q.query \in Range(files[d.file].chunks)

\* C22: once a migration has archived a record of owner U, whether it was
\* called with user_id U or by _run_archival (run_now, the loop) without one,
\* a query by U with include_archive, for the text of that record and with k
\* above the number of records, returns the text as an ARCHIVE result of
\* salience 0.
C22_ArchivedContentFound ==
    [][(Merges /\ q.include_archive /\ q.user_id # None /\ q.k >= next_id)
       => \A f \in DOMAIN files : \A i \in DOMAIN files[f].chunks :
             (/\ files[f].user[i] = q.user_id
              /\ files[f].chunks[i] = q.query
              /\ f.owner \in {q.user_id, "default"})
             => \E r \in Range(q'.results) :
                   /\ r.content = q.query
                   /\ r.location = "archive"
                   /\ r.salience = 0]_vars

\* C23: the scheduler is Stopped until start is called, start creates the one
\* loop task and makes it Running, stop ends the task and makes it Stopped,
\* and start while Running creates and restarts nothing: there is never more
\* than one loop task, and there is one exactly while the state is Running.
C23_TwoStateMachine ==
    /\ [](/\ tasks \in {0, 1}
          /\ running <=> tasks = 1
          /\ running <=> ctx[Loop].pc # "none"
          /\ ~enabled => ~running)
    /\ [][/\ (~running /\ running')
             => tasks' = tasks + 1 /\ ctx'[Loop] = Frame("ready") /\ enabled'
          /\ (running /\ ~running') => tasks' = 0 /\ ctx'[Loop] = Frame("none")
          /\ (running /\ running')
             => /\ tasks' = tasks
                /\ (ctx'[Loop].pc = "ready" /\ ctx[Loop].pc # "ready")
                   => ctx[Loop].pc = "sleep" /\ now >= wake_at]_vars

\* The scheduler is Running with its loop task inside a migration while a
\* run_now call is inside another.
C23_Witness ==
    /\ running
    /\ tasks = 1
    /\ InFlight(Loop)
    /\ InFlight("c1")
    /\ ctx["c1"].via = "sched"

\* C24: a call of run_now enters the Migrator in the same step, whether the
\* scheduler was never started, is Running or is Stopped, and whatever
\* `enabled` it was constructed with.
C24_RunNowAlwaysInvokes ==
    [][ret' = Triggered
       => /\ ctx'["c1"].pc \in {"empty", "encode"}
          /\ ctx'["c1"].via = "sched"]_vars

\* The step in which stop ends the loop task.
Stops == running /\ ~running'

\* C25: when stop returns, a migration the loop was inside when stop was
\* called has run to its end: its run is in the history (last_run) and, if
\* its segment was written, its rows are deleted.
C25_StopAwaitsMigration ==
    [][(Stops /\ InFlight(Loop))
       => /\ last_run' = Some(now * 1000)
          /\ ctx[Loop].pc \in {"delete", "commit", "count"}
             => Ids(ctx[Loop].eligible) \cap DOMAIN memories' = {}]_vars

\* C26: stop never leaves a batch half done: when the scheduler is Stopped,
\* a row whose text is in a segment already written is still in the active
\* store only while a call that is not the loop's is about to delete it.
C26_NoAbandonedBatch ==
    ~running
    => \A f \in DOMAIN files : \A id \in Range(files[f].src) \cap DOMAIN memories :
          \E p \in Callers : ctx[p].pc = "delete" /\ id \in Ids(ctx[p].eligible)

Backoff == 60

\* C28: when an invocation of the migrator by the loop has failed, the loop
\* sleeps 60 seconds before the next one; when it has not, the loop sleeps
\* interval_seconds.
C28_BackoffAfterFailure ==
    [][/\ Returns(Loop, "failed") => wake_at' = now + Backoff
       /\ (Returns(Loop, "empty") \/ Returns(Loop, "count"))
          => wake_at' = now + Interval]_vars

\* C29: while the scheduler is Stopped, only start and the return of a run_now
\* change a field of the scheduler or what get_status returns; a call of stop
\* changes neither.
C29_StopIdempotent ==
    [][(~running /\ ~running')
       => /\ tasks' = tasks
          /\ enabled' = enabled
          /\ wake_at' = wake_at
          /\ ctx'[Loop] = ctx[Loop]
          /\ DOMAIN get_status' = DOMAIN get_status
          /\ get_status' # get_status
             => /\ \E from \in InFlightPcs : Returns("c1", from)
                /\ ctx["c1"].via = "sched"]_vars

\* The scheduler is Stopped after it was Running, with a run that archived a
\* row in its history, and no call is in progress.
C29_Witness ==
    /\ ~running
    /\ enabled
    /\ tasks = 0
    /\ total_archived > 0
    /\ get_status.next_run_in = Nil
    /\ \A p \in Procs : ~InFlight(p)

\* C30: the seconds until the next run are absent when the scheduler is not
\* running or has no run in its history; otherwise they are the whole seconds
\* in last_run + interval - now, 0 when that is not positive, so never below
\* 0 and never above the interval.
C30_NextRunIn ==
    st.pc = "done"
    => IF ~st.running \/ st.last_run = Nil THEN st.result = Nil
       ELSE LET left == st.last_run[1] + st.interval * 1000 - st.clock_ms
                v == st.result[1]
            IN /\ st.result # Nil
               /\ v >= 0
               /\ v <= st.interval
               /\ IF left <= 0 THEN v = 0
                  ELSE v * 1000 <= left /\ left < (v + 1) * 1000

\* A running scheduler asked with a second and a half of its interval left
\* answered 1.
C30_Witness ==
    /\ st.pc = "done"
    /\ st.running
    /\ st.last_run # Nil
    /\ st.last_run[1] + st.interval * 1000 - st.clock_ms = 1500
    /\ st.result = Some(1)

\* The thresholds a call inside archive_old_memories was given.
Called(p) == InFlight(p) /\ "age_days" \in DOMAIN ctx[p]

\* A threshold that is not a valid one: a negative age, a salience outside
\* 0.0 .. 1.0.
Malformed(age_days, min_salience) ==
    \/ age_days # Nil /\ age_days[1] < 0
    \/ min_salience # Nil /\ (min_salience[1] < 0 \/ min_salience[1] > 100)

\* C31: a call with a malformed threshold is rejected before anything is
\* selected: no call with such a threshold is ever inside the migration.
C31_MalformedRejected ==
    \A p \in Procs : Called(p) => ~Malformed(ctx[p].age_days, ctx[p].min_salience)

\* The threshold a call asks for: the argument when one is given, the system
\* threshold when it is None.
Supplied(x, default) == IF x = Nil THEN default ELSE x[1]

\* C35: the rows a call selects are those eligible under the age_days and
\* min_salience it was given, 0 included; the system thresholds are used
\* only for an argument that is None.
C35_SuppliedThresholdsUsed ==
    [][\A p \in Callers :
          (ctx[p].pc = "idle" /\ ctx'[p].pc \in InFlightPcs /\ "age_days" \in DOMAIN ctx'[p])
          => Ids(ctx'[p].eligible) =
               {i \in DOMAIN memories :
                  IsEligible(memories[i], ctx'[p].user_id,
                             now * 1000 - Supplied(ctx'[p].age_days,
                                                   archive_threshold_days) * MsPerDay,
                             Supplied(ctx'[p].min_salience, archive_min_salience))}]_vars

\* A file name of the form user_<id>_<ts>: three or more parts, the first
\* "user", the last a number.
WellFormed(f) == Len(f) >= 3 /\ f[1] = "user" /\ IsNumeric(f[Len(f)])

\* C32: whatever files archive_dir holds, the rebuild ends with a registry
\* (no stray file makes it fail), and every well-formed segment file is the
\* file of some descriptor.
C32_StrayFilesSkipped ==
    rb.pc = "done"
    => /\ rb.result.kind = "index"
       /\ \A f \in {g \in rb.dir : WellFormed(g)} :
             \E u \in DOMAIN rb.result.index : \E t \in DOMAIN rb.result.index[u] :
                rb.result.index[u][t].file = f

\* C33: the segment a migration for owner O at time T wrote is registered by
\* the rebuild under O with creation time T and its own file and side index,
\* also when O contains underscores or is None ("default").
C33_RebuildRoundTrip ==
    rb.pc = "done"
    => \A o \in RebuildOwners, t \in 1..MaxStamp :
          FileName(Stem(o, t)) \in rb.dir
          => /\ rb.result.kind = "index"
             /\ Stem(o, t).owner \in DOMAIN rb.result.index
             /\ t \in DOMAIN rb.result.index[Stem(o, t).owner]
             /\ rb.result.index[Stem(o, t).owner][t] =
                   [file |-> FileName(Stem(o, t)), index |-> FileName(Stem(o, t)),
                    created_at |-> t]

\* The step in which a get_stats returns its report.
Reports == gs.pc = "archives" /\ gs'.pc = "idle"

\* C34: the report of get_stats holds the count of active records its COUNT
\* query saw (of the owner, or of all), the number of descriptors the registry
\* holds for the owner (of all owners when none is given), their sum as the
\* combined total, the sum of the two sizes as the combined size, and as ratio
\* the combined size over the active-store size, 1.0 when that is zero; no
\* step of get_stats changes the active store or the registry.
C34_StatsReport ==
    [][/\ (gs.pc = "idle" /\ gs'.pc = "avg") =>
             gs'.active_count =
                 Cardinality({i \in DOMAIN memories :
                                 gs'.user_id = None \/ memories[i].user_id = gs'.user_id})
       /\ gs'.pc = "archives" => gs'.active_count = gs.active_count
       /\ Reports =>
             /\ ret'.active_count = gs.active_count
             /\ ret'.archive_count =
                    Cardinality({e \in Entries(archive_index) :
                                    gs.user_id = None \/ e[1] = gs.user_id})
             /\ ret'.total_memories = ret'.active_count + ret'.archive_count
             /\ ret'.total_size = ret'.active_db_size + ret'.archive_size
             /\ IF ret'.active_db_size = 0
                THEN ret'.compression_ratio = 100
                ELSE ret'.compression_ratio =
                         (ret'.total_size * 100) \div ret'.active_db_size
       /\ gs' # gs => memories' = memories /\ archive_index' = archive_index
                      /\ files' = files
      ]_vars

\* A report over two owners' descriptors and a non-empty active store.
C34_Witness ==
    /\ ret.kind = "system_stats"
    /\ ret.user_id = None
    /\ ret.archive_count = 2
    /\ ret.active_db_size > 0
    /\ ret.archive_size > 0


\* C36: a call of archive_old_memories with a user_id selects rows of that
\* user only, none of its steps removes or changes a row of another user or a
\* row without a user, and the active_remaining it returns is the number of
\* that user's rows in the active store.
C36_OwnerScoped ==
    [][\A p \in Callers :
         LET U == ctx'[p].user_id
             V == ctx[p].user_id
         IN /\ (ctx[p].pc = "idle" /\ InFlight(p)' /\ U # None) =>
                   \A n \in DOMAIN ctx'[p].eligible : ctx'[p].eligible[n].user_id = U
            /\ (InFlight(p) /\ ctx'[p] # ctx[p] /\ V # None) =>
                   /\ \A i \in DOMAIN memories :
                         memories[i].user_id # V =>
                             i \in DOMAIN memories' /\ memories'[i] = memories[i]
                   /\ ret'.kind = "stats" =>
                         ret'.active_remaining =
                             Cardinality({i \in DOMAIN memories' :
                                             memories'[i].user_id = V})
      ]_vars

\* A migration for u1 has returned after archiving, rows of u2 and a row
\* without a user being in the active store.
C36_Witness ==
    /\ ret.kind = "stats"
    /\ ret.archived_count > 0
    /\ deleted # {}
    /\ \E i \in DOMAIN memories : memories[i].user_id = "u2" /\ memories[i].salience = 10
    /\ \E i \in DOMAIN memories : memories[i].user_id = None /\ memories[i].salience = 10
    /\ \A f \in DOMAIN files : f.owner = "u1"


\* C37: every ARCHIVE result of a hybrid query with a user_id is a text
\* archived from a row of that user, in a segment that holds rows of that user
\* only; also after migrations without a user_id and after a restart.
C37_TenantIsolation ==
    (q.pc = "done" /\ q.user_id # None) =>
        \A n \in DOMAIN q.results :
            q.results[n].location = "archive" =>
                \A m \in DOMAIN files[q.results[n].archive_file].user :
                    files[q.results[n].archive_file].user[m] = q.user_id


\* The registry without the descriptors of the files in `failing`.
IndexWithout(index, failing) ==
    [u \in DOMAIN index |->
        [t \in {x \in DOMAIN index[u] : index[u][x].file \notin failing} |-> index[u][t]]]

\* C38: when opening or searching some archives of the user raises, the query
\* still returns: its results are the top k of the active hits and of the hits
\* of the user's other archives, exactly as if the failing archives were not
\* registered, and the registry is left as it was.
C38_FailingArchiveSkipped ==
    [][(q.pc = "archive" /\ q' # q) =>
          /\ q'.pc = "done"
          /\ q'.results =
                 Take(SortByScore(
                          q.results
                          \o (IF q.include_archive /\ q.user_id \in DOMAIN archive_index
                              THEN ArchiveResults(files,
                                       IndexWithout(archive_index, q'.failed)[q.user_id],
                                       DOMAIN IndexWithout(archive_index, q'.failed)[q.user_id],
                                       q.query, q.k)
                              ELSE <<>>)), q.k)
          /\ \A f \in q'.failed : \A n \in DOMAIN q'.results :
                 q'.results[n].archive_file # f
          /\ archive_index' = archive_index
      ]_vars

\* A query has returned an active hit and a hit of the user's second archive
\* after the first archive failed.
C38_Witness ==
    /\ q.pc = "done"
    /\ q.failed # {}
    /\ \E n \in DOMAIN q.results : q.results[n].location = "active"
    /\ \E n \in DOMAIN q.results :
          /\ q.results[n].location = "archive"
          /\ \E f \in q.failed : f.ts < q.results[n].archive_file.ts


\* C39: total_archived starts at 0 and every step adds to it exactly the
\* archived_count of the invocation of _run_archival that returns in the step,
\* so it is the sum over the completed invocations and never decreases;
\* last_run is set to the clock in exactly those steps, also when nothing was
\* archived; a step in which an invocation raises changes neither.
C39_RunHistory ==
    [][LET done == {p \in Procs : /\ ctx[p].via = "sched"
                                  /\ InFlight(p)
                                  /\ ctx'[p].pc \in {"idle", "sleep"}
                                  /\ ret'.kind = "stats"}
       IN /\ total_archived' >= total_archived
          /\ IF done # {}
             THEN /\ total_archived' = total_archived + ret'.archived_count
                  /\ last_run' = Some(now * 1000)
             ELSE /\ total_archived' = total_archived
                  /\ last_run' = last_run
          /\ ret'.kind = "raised" => total_archived' = total_archived /\ last_run' = last_run
      ]_vars

\* After a run that archived a record, an invocation through the scheduler
\* has raised.
C39_Witness ==
    /\ ret = Raised("sched")
    /\ total_archived > 0
    /\ last_run # Nil


\* The step in which index_file is called on the file at `path`.
Indexes(path) == ix.pc = "ready" /\ ix'.pc = "ready" /\ ix'.disk = ix.disk
                 /\ ix'.calls # ix.calls /\ ix'.result.status # "none"
                 /\ ix'.result.file_path = path

\* C40: index_file on a file whose hash is in the metadata under the same
\* absolute path answers already_indexed, builds no segment and leaves the
\* metadata as it is; on a file whose hash is in the metadata under another
\* path it builds a segment and answers indexed, and the metadata then has the
\* entries it had, that of the hash now naming the new path.
C40_IndexFileIdempotent ==
    [][\A path \in AbsPaths :
         (Indexes(path) /\ ix.disk[path] # Missing
            /\ Sha256(ix.disk[path]) \in DOMAIN ix.metadata) =>
             LET h == Sha256(ix.disk[path])
             IN IF ix.metadata[h].file_path = path
                THEN /\ ix'.result.status = "already_indexed"
                     /\ ix'.builds = ix.builds
                     /\ ix'.videos = ix.videos
                     /\ ix'.metadata = ix.metadata
                ELSE /\ ix'.result.status = "indexed"
                     /\ ix'.builds = ix.builds + 1
                     /\ DOMAIN ix'.metadata = DOMAIN ix.metadata
                     /\ ix'.metadata[h].file_path = path
                     /\ \A g \in DOMAIN ix.metadata \ {h} :
                            ix'.metadata[g] = ix.metadata[g]
      ]_vars

\* A file was indexed, its content then indexed under another path, and a
\* second call on that path answered already_indexed.
C40_Witness ==
    /\ ix.pc = "ready"
    /\ ix.result.status = "already_indexed"
    /\ ix.result.file_path = "/d/b"
    /\ ix.builds = 2
    /\ Cardinality(DOMAIN ix.metadata) = 1
    /\ ix.disk["/d/a"] = ix.disk["/d/b"]

====
